---- MODULE Spec2Model ----
(***************************************************************************)
(* The Sudoku engine of src/sudoku_algo/sudoku_algorithm.py as a state     *)
(* machine: the constraint checker, the domain tracker with its removal    *)
(* records, the MRV cell selector, the backtracking solver with its        *)
(* in-place shuffle, the solution counter, the uniqueness test and the     *)
(* puzzle generator.  Rows and columns are 0-based as in the source; the   *)
(* candidate lists are sequences (Python lists), so their order and the    *)
(* index-based list iterator of the solver's for loop are part of the      *)
(* state.                                                                  *)
(***************************************************************************)
EXTENDS Integers, Sequences, FiniteSets, TLC

\* range(9) of is_valid, initialize_domains, update_domains, select_unassigned_cell
N == 9
\* 3 * (row // 3): the edge of a box
BOX == 3
\* MAX_NUM_TRIALS
MAX_NUM_TRIALS == 60

Idx == 0 .. (N - 1)
Vals == 1 .. N
Cells == Idx \X Idx

(***************************************************************************)
(* Loops.  ForRange(Body, st, lo, hi) is the state after                   *)
(*     for k in range(lo, hi + 1): st = Body(st, k)                        *)
(* It composes the iterations from left to right; the range is halved so   *)
(* that the evaluation nests only logarithmically deep.                    *)
(***************************************************************************)
\* F(v), with v evaluated before F is applied
Strict(v, F(_)) == CHOOSE res \in {F(x) : x \in {v}} : TRUE

RECURSIVE ForRange(_, _, _, _)
ForRange(Body(_, _), st, lo, hi) ==
    IF lo > hi THEN st
    ELSE IF lo = hi THEN Body(st, lo)
    ELSE LET mid == (lo + hi) \div 2
         IN  Strict(ForRange(Body, st, lo, mid),
                    LAMBDA s2 : ForRange(Body, s2, mid + 1, hi))

(***************************************************************************)
(* Python list operations.                                                 *)
(***************************************************************************)
\* `x in list`
Contains(s, x) == \E k \in 1 .. Len(s) : s[k] = x

\* list.remove(x): drops the first occurrence of x
RemoveFirst(s, x) ==
    LET k == CHOOSE j \in 1 .. Len(s) :
                 s[j] = x /\ \A m \in 1 .. (j - 1) : s[m] # x
    IN  SubSeq(s, 1, k - 1) \o SubSeq(s, k + 1, Len(s))

\* the set of the values of a list
Elems(s) == {s[k] : k \in 1 .. Len(s)}

\* the orders random.shuffle(list) can leave a list in
RECURSIVE Shuffles(_)
Shuffles(s) ==
    IF s = <<>> THEN {<<>>}
    ELSE UNION {{<<s[k]>> \o t :
                    t \in Shuffles(SubSeq(s, 1, k - 1) \o SubSeq(s, k + 1, Len(s)))} :
                k \in 1 .. Len(s)}

(***************************************************************************)
(* Grids.  A literal grid is a tuple of N rows of N values (1-based); the  *)
(* program's board[row][col] is 0-based.                                   *)
(***************************************************************************)
Grid(lit) == [r \in Idx |-> [c \in Idx |-> lit[r + 1][c + 1]]]

SetCell(b, row, col, v) == [b EXCEPT ![row][col] = v]

\* start_row, start_col of the 3x3 subgrid
BoxStart(k) == BOX * (k \div BOX)

\* is_valid without its loop over the 3x3 subgrid
is_valid_NoBox(b, row, col, num) ==
    \A i \in Idx : ~(b[row][i] = num \/ b[i][col] = num)

\* is_valid(board, row, col, num)
is_valid(b, row, col, num) ==
    /\ \A i \in Idx : ~(b[row][i] = num \/ b[i][col] = num)
    /\ \A i \in BoxStart(row) .. (BoxStart(row) + BOX - 1) :
          \A j \in BoxStart(col) .. (BoxStart(col) + BOX - 1) : b[i][j] # num

(***************************************************************************)
(* Domain tracker.  A removal record is the dict update_domains returns:   *)
(* its keys in insertion order, each with the list of values removed.      *)
(***************************************************************************)
\* the cells of update_domains' first loop only: the row and the column
VisitOrder_RowCol(row, col) ==
    [k \in 1 .. (2 * N) |->
        IF k % 2 = 1 THEN <<row, (k - 1) \div 2>>
                     ELSE <<(k - 2) \div 2, col>>]

\* the cells update_domains looks at, in the order of its two loops
VisitOrder(row, col) ==
    [k \in 1 .. (2 * N + BOX * BOX) |->
        IF k <= 2 * N
        THEN IF k % 2 = 1 THEN <<row, (k - 1) \div 2>>
                          ELSE <<(k - 2) \div 2, col>>
        ELSE <<BoxStart(row) + ((k - 2 * N - 1) \div BOX),
               BoxStart(col) + ((k - 2 * N - 1) % BOX)>>]

\* removed_values.setdefault(cell, []).append(num)
SetDefaultAppend(rec, cell, num) ==
    IF \E k \in 1 .. Len(rec) : rec[k].cell = cell
    THEN [k \in 1 .. Len(rec) |->
            IF rec[k].cell = cell
            THEN [rec[k] EXCEPT !.values = Append(@, num)]
            ELSE rec[k]]
    ELSE Append(rec, [cell |-> cell, values |-> <<num>>])

\* one visit of update_domains that records the cell whether or not num
\* was in its domain
Visit_AlwaysRecord(st, cell, num) ==
    [domains |-> IF Contains(st.domains[cell[1]][cell[2]], num)
                 THEN [st.domains EXCEPT ![cell[1]][cell[2]] = RemoveFirst(@, num)]
                 ELSE st.domains,
     removed |-> SetDefaultAppend(st.removed, cell, num)]

\* one `if num in domains[i][j]: remove; record` of update_domains
Visit(st, cell, num) ==
    IF Contains(st.domains[cell[1]][cell[2]], num)
    THEN [domains |-> [st.domains EXCEPT ![cell[1]][cell[2]] = RemoveFirst(@, num)],
          removed |-> SetDefaultAppend(st.removed, cell, num)]
    ELSE st

\* update_domains(domains, row, col, num): the new table and the record
update_domains(d, row, col, num) ==
    LET order == VisitOrder(row, col)
    IN  ForRange(LAMBDA st, k : Visit(st, order[k], num),
                 [domains |-> d, removed |-> <<>>], 1, Len(order))

\* restore_domains that leaves out the last key of the record
restore_domains_DropLast(d, removed) ==
    ForRange(LAMBDA dd, k :
                 [dd EXCEPT ![removed[k].cell[1]][removed[k].cell[2]] =
                                @ \o removed[k].values],
             d, 1, Len(removed) - 1)

\* restore_domains(domains, removed_values)
restore_domains(d, removed) ==
    ForRange(LAMBDA dd, k :
                 [dd EXCEPT ![removed[k].cell[1]][removed[k].cell[2]] =
                                @ \o removed[k].values],
             d, 1, Len(removed))

\* the list [1, 2, ..., 9]
FullDomain == [k \in 1 .. N |-> k]

\* initialize_domains without `domains[r][c] = []` for the filled cells
initialize_domains_KeepFilled(b) ==
    ForRange(LAMBDA d, k :
                 LET r == k \div N
                     c == k % N
                 IN  IF b[r][c] # 0
                     THEN update_domains(d, r, c, b[r][c]).domains
                     ELSE d,
             [r \in Idx |-> [c \in Idx |-> FullDomain]], 0, N * N - 1)

\* initialize_domains(board): the two loops visit the cells in row-major
\* order, k = 9 * r + c
initialize_domains(b) ==
    ForRange(LAMBDA d, k :
                 LET r == k \div N
                     c == k % N
                 IN  IF b[r][c] # 0
                     THEN update_domains([d EXCEPT ![r][c] = <<>>],
                                         r, c, b[r][c]).domains
                     ELSE d,
             [r \in Idx |-> [c \in Idx |-> FullDomain]], 0, N * N - 1)

(***************************************************************************)
(* Cell selector (MRV).  None is the Python None.  The scan state is       *)
(* [min |-> min_domain_size, cell |-> selected_cell]; while selected_cell  *)
(* is None, min_domain_size is float('inf').                               *)
(***************************************************************************)
None == <<>>

\* Variant of select_unassigned_cell that passes over the empty cells whose
\* candidate list is empty, so that it answers None while such a cell is left.
select_unassigned_cell_SkipWiped(b, d) ==
    ForRange(LAMBDA st, k :
                 LET r == k \div N
                     c == k % N
                 IN  IF b[r][c] = 0 /\ Len(d[r][c]) > 0
                        /\ (st.cell = None \/ Len(d[r][c]) < st.min)
                     THEN [min |-> Len(d[r][c]), cell |-> <<r, c>>]
                     ELSE st,
             [min |-> 0, cell |-> None], 0, N * N - 1).cell

\* select_unassigned_cell with `<=` for the `<` of its comparison
select_unassigned_cell_LastTie(b, d) ==
    ForRange(LAMBDA st, k :
                 LET r == k \div N
                     c == k % N
                 IN  IF b[r][c] = 0 /\ (st.cell = None \/ Len(d[r][c]) <= st.min)
                     THEN [min |-> Len(d[r][c]), cell |-> <<r, c>>]
                     ELSE st,
             [min |-> 0, cell |-> None], 0, N * N - 1).cell

\* select_unassigned_cell(board, domains): row-major scan, k = 9 * r + c
select_unassigned_cell(b, d) ==
    ForRange(LAMBDA st, k :
                 LET r == k \div N
                     c == k % N
                 IN  IF b[r][c] = 0 /\ (st.cell = None \/ Len(d[r][c]) < st.min)
                     THEN [min |-> Len(d[r][c]), cell |-> <<r, c>>]
                     ELSE st,
             [min |-> 0, cell |-> None], 0, N * N - 1).cell

(***************************************************************************)
(* State.                                                                  *)
(*   board, domains   the grid and the candidate table of the search in    *)
(*                    progress (solve_sudoku or count_solutions)           *)
(*   stack            the frames of the recursion, outermost first; each   *)
(*                    holds its locals: row, col, the position i of its    *)
(*                    for loop's list iterator, num, removed_values, and   *)
(*                    for count_solutions the copy original_domain; a      *)
(*                    solve_sudoku frame also keeps two histories: start,  *)
(*                    the cell's domain as the for loop found it, and      *)
(*                    tried, the values the loop has read so far, and the  *)
(*                    grid and the table as they were when the call was    *)
(*                    entered, board_in and domains_in; every frame keeps  *)
(*                    the history of its removed_values: record is "none"  *)
(*                    before the first update_domains of the frame, "live" *)
(*                    from an update_domains on and "undone" once          *)
(*                    restore_domains was applied to it; after is the      *)
(*                    table that update_domains left                       *)
(*   pc               where the search is: "idle", "call" (a call is being *)
(*                    entered), "loop" (top of the for loop of the top     *)
(*                    frame), "return" (a call has just returned), "done"  *)
(*   ret              the value the last solve_sudoku call returned        *)
(*   count            the list num_solutions of has_unique_solution        *)
(*   board0           the grid as it was handed to the search (history)    *)
(*   solved_board, num_empty_cells   the arguments of generate_new_sudoku  *)
(*   puzzle           generate_new_sudoku's local board                    *)
(*   cells_to_remove, num_trials, sample, original_value   its locals;     *)
(*                    sample is <<row, col>>                               *)
(*   gpc              where generate_new_sudoku is: "idle", "loop", "test" *)
(*                    (inside has_unique_solution), "done" (returned)      *)
(*   tests            how many times generate_new_sudoku has called        *)
(*                    has_unique_solution (history; it stops counting one  *)
(*                    past MAX_NUM_TRIALS)                                 *)
(*   args, result     the arguments and the return value of a function     *)
(*                    that is not part of a search: args is a record,      *)
(*                    result is <<>> until the function has returned and   *)
(*                    <<value>> afterwards                                 *)
(*   ui               the game window: a record of its mistake counter,    *)
(*                    its boards and the state of its widgets (<<>> while  *)
(*                    no window is part of the run)                        *)
(***************************************************************************)
VARIABLES board, domains, stack, pc, ret, count, board0,
          solved_board, num_empty_cells, puzzle, cells_to_remove,
          num_trials, sample, original_value, gpc, tests,
          args, result, ui

searchVars == <<board, domains, stack, pc, ret, count, board0>>
genVars == <<solved_board, num_empty_cells, puzzle, cells_to_remove,
             num_trials, sample, original_value, gpc, tests>>
vars == <<board, domains, stack, pc, ret, count, board0,
          solved_board, num_empty_cells, puzzle, cells_to_remove,
          num_trials, sample, original_value, gpc, tests,
          args, result, ui>>
fnVars == <<args, result>>

ZeroGrid == [r \in Idx |-> [c \in Idx |-> 0]]
NoDomains == [r \in Idx |-> [c \in Idx |-> <<>>]]

Top == stack[Len(stack)]
Pop == SubSeq(stack, 1, Len(stack) - 1)
SetTop(f) == [stack EXCEPT ![Len(stack)] = f]

GenIdle ==
    /\ solved_board = ZeroGrid /\ num_empty_cells = 0 /\ puzzle = ZeroGrid
    /\ cells_to_remove = 0 /\ num_trials = 0 /\ sample = None
    /\ original_value = 0 /\ gpc = "idle" /\ tests = 0

FnIdle == args = <<>> /\ result = <<>>

UiIdle == ui = <<>>

(***************************************************************************)
(* Backtracking solver: solve_sudoku(board, domains).                      *)
(***************************************************************************)
\* a call is entered: select the cell, return True if there is none,
\* otherwise shuffle its candidate list in place and start the for loop
SolveCall ==
    /\ pc = "call"
    /\ LET cell == select_unassigned_cell(board, domains)
       IN  IF cell = None
           THEN /\ ret' = TRUE
                /\ pc' = "return"
                /\ UNCHANGED <<domains, stack>>
           ELSE /\ \E sh \in Shuffles(domains[cell[1]][cell[2]]) :
                      domains' = [domains EXCEPT ![cell[1]][cell[2]] = sh]
                /\ stack' = Append(stack, [row |-> cell[1], col |-> cell[2], i |-> 0,
                                           num |-> 0, removed |-> <<>>,
                                           start |-> domains'[cell[1]][cell[2]],
                                           tried |-> <<>>,
                                           board_in |-> board,
                                           domains_in |-> domains,
                                           record |-> "none",
                                           after |-> domains])
                /\ pc' = "loop"
                /\ UNCHANGED ret
    /\ UNCHANGED <<board, count, board0>>
    /\ UNCHANGED genVars
    /\ UNCHANGED fnVars
    /\ UNCHANGED ui

\* a list iterator that stays at its position
IterNext_Stay(i) == i

\* the list iterator of `for num in domains[row][col]` moves on by one
IterNext(i) == i + 1

\* one step of `for num in domains[row][col]`: the list iterator reads the
\* live list at its position i; past the end the loop is over and the call
\* returns False
SolveLoop ==
    /\ pc = "loop"
    /\ LET f == Top
           dom == domains[f.row][f.col]
       IN  IF f.i < Len(dom)
           THEN LET num == dom[f.i + 1]
                IN  IF is_valid(board, f.row, f.col, num)
                    THEN LET u == update_domains(domains, f.row, f.col, num)
                         IN  /\ board' = SetCell(board, f.row, f.col, num)
                             /\ domains' = u.domains
                             /\ stack' = SetTop([f EXCEPT !.i = IterNext(f.i), !.num = num,
                                                          !.removed = u.removed,
                                                          !.tried = Append(@, num),
                                                          !.record = "live",
                                                          !.after = u.domains])
                             /\ pc' = "call"
                             /\ UNCHANGED ret
                    ELSE /\ stack' = SetTop([f EXCEPT !.i = IterNext(f.i), !.num = num,
                                                      !.tried = Append(@, num)])
                         /\ UNCHANGED <<board, domains, pc, ret>>
           ELSE /\ stack' = Pop
                /\ ret' = FALSE
                /\ pc' = "return"
                /\ UNCHANGED <<board, domains>>
    /\ UNCHANGED <<count, board0>>
    /\ UNCHANGED genVars
    /\ UNCHANGED fnVars
    /\ UNCHANGED ui

\* the recursive call of the top frame has returned: True is passed on,
\* False undoes the move and goes on with the loop
SolveReturn ==
    /\ pc = "return"
    /\ stack # <<>>
    /\ LET f == Top
       IN  IF ret
           THEN /\ stack' = Pop
                /\ UNCHANGED <<board, domains, pc>>
           ELSE /\ board' = SetCell(board, f.row, f.col, 0)
                /\ domains' = restore_domains(domains, f.removed)
                /\ pc' = "loop"
                /\ stack' = SetTop([f EXCEPT !.record = "undone"])
    /\ UNCHANGED <<ret, count, board0>>
    /\ UNCHANGED genVars
    /\ UNCHANGED fnVars
    /\ UNCHANGED ui

\* the outermost call has returned to its caller
SolveDone ==
    /\ pc = "return"
    /\ stack = <<>>
    /\ pc' = "done"
    /\ UNCHANGED <<board, domains, stack, ret, count, board0>>
    /\ UNCHANGED genVars
    /\ UNCHANGED fnVars
    /\ UNCHANGED ui

(***************************************************************************)
(* Solution counter: count_solutions(board, domains, count), run by        *)
(* has_unique_solution(puzzle) on copy.deepcopy(puzzle).  Its pc values    *)
(* carry the prefix "c_".                                                  *)
(***************************************************************************)
\* Variant of PrivateCopy: count_solutions is handed the caller's grid itself.
PrivateCopy_Aliased == FALSE

\* count_solutions is called with copy.deepcopy(board), a grid of its own
PrivateCopy == TRUE

\* the caller's grid once count_solutions has made its board b: untouched
\* when the board is a private copy
CallerGrid(b) == IF PrivateCopy THEN puzzle ELSE b

\* the state of generate_new_sudoku apart from its grid
genRest == <<solved_board, num_empty_cells, cells_to_remove, num_trials,
             sample, original_value, gpc, tests>>

\* has_unique_solution(b) up to its call of count_solutions
HasUniqueEnter(b) ==
    /\ count' = <<0>>
    /\ domains' = initialize_domains(b)
    /\ board' = b
    /\ board0' = b
    /\ stack' = <<>>
    /\ pc' = "c_call"
    /\ UNCHANGED ret

\* Variant of CountCapReached that lets one more solution be counted.
CountCapReached_Late == count[1] > 2

\* `if count[0] > 1`
CountCapReached == count[1] > 1

\* a call is entered: return at once when count[0] > 1; count a grid
\* without empty cell; otherwise copy the cell's list and start the loop
CountCall ==
    /\ pc = "c_call"
    /\ IF CountCapReached
       THEN /\ pc' = "c_return"
            /\ UNCHANGED <<count, stack>>
       ELSE LET cell == select_unassigned_cell(board, domains)
            IN  IF cell = None
                THEN /\ count' = [count EXCEPT ![1] = @ + 1]
                     /\ pc' = "c_return"
                     /\ UNCHANGED stack
                ELSE /\ stack' = Append(stack,
                            [row |-> cell[1], col |-> cell[2], i |-> 0, num |-> 0,
                             removed |-> <<>>,
                             original_domain |-> domains[cell[1]][cell[2]],
                             record |-> "none",
                             after |-> domains])
                     /\ pc' = "c_loop"
                     /\ UNCHANGED count
    /\ UNCHANGED <<board, domains, ret, board0>>
    /\ UNCHANGED genVars
    /\ UNCHANGED fnVars
    /\ UNCHANGED ui

\* one step of `for num in original_domain`
CountLoop ==
    /\ pc = "c_loop"
    /\ LET f == Top
       IN  IF f.i < Len(f.original_domain)
           THEN LET num == f.original_domain[f.i + 1]
                IN  IF is_valid(board, f.row, f.col, num)
                    THEN LET u == update_domains(domains, f.row, f.col, num)
                         IN  /\ board' = SetCell(board, f.row, f.col, num)
                             /\ domains' = u.domains
                             /\ stack' = SetTop([f EXCEPT !.i = f.i + 1, !.num = num,
                                                          !.removed = u.removed,
                                                          !.record = "live",
                                                          !.after = u.domains])
                             /\ pc' = "c_call"
                    ELSE /\ stack' = SetTop([f EXCEPT !.i = f.i + 1, !.num = num])
                         /\ UNCHANGED <<board, domains, pc>>
           ELSE /\ stack' = Pop
                /\ pc' = "c_return"
                /\ UNCHANGED <<board, domains>>
    /\ puzzle' = CallerGrid(board')
    /\ UNCHANGED <<ret, count, board0>>
    /\ UNCHANGED genRest
    /\ UNCHANGED fnVars
    /\ UNCHANGED ui

\* the recursive call of the top frame has returned: `if len(count) > 1:
\* return`, otherwise undo the move and go on with the loop
CountReturn ==
    /\ pc = "c_return"
    /\ stack # <<>>
    /\ LET f == Top
       IN  IF Len(count) > 1
           THEN /\ stack' = Pop
                /\ UNCHANGED <<board, domains, pc>>
           ELSE /\ board' = SetCell(board, f.row, f.col, 0)
                /\ domains' = restore_domains(domains, f.removed)
                /\ pc' = "c_loop"
                /\ stack' = SetTop([f EXCEPT !.record = "undone"])
    /\ puzzle' = CallerGrid(board')
    /\ UNCHANGED <<ret, count, board0>>
    /\ UNCHANGED genRest
    /\ UNCHANGED fnVars
    /\ UNCHANGED ui

\* the outermost call has returned to has_unique_solution
CountDone ==
    /\ pc = "c_return"
    /\ stack = <<>>
    /\ pc' = "c_done"
    /\ UNCHANGED <<board, domains, stack, ret, count, board0>>
    /\ UNCHANGED genVars
    /\ UNCHANGED fnVars
    /\ UNCHANGED ui

\* Variant of has_unique_solution_result: True as soon as one solution was
\* counted.
has_unique_solution_AtLeastOne == count[1] >= 1

\* has_unique_solution's return value, once count_solutions has returned
has_unique_solution_result == count[1] = 1

(***************************************************************************)
(* Puzzle generator: generate_new_sudoku(solved_board, num_empty_cells).   *)
(***************************************************************************)
\* Variant of GenEnter that sets cells_to_remove one too high.
GenEnter_OneMore(sb, n) ==
    /\ solved_board = sb
    /\ num_empty_cells = n
    /\ puzzle = sb
    /\ cells_to_remove = n + 1
    /\ num_trials = 0
    /\ sample = None
    /\ original_value = 0
    /\ gpc = "loop"
    /\ tests = 0

\* the function is entered: board = deepcopy(solved_board), the counters
GenEnter(sb, n) ==
    /\ solved_board = sb
    /\ num_empty_cells = n
    /\ puzzle = sb
    /\ cells_to_remove = n
    /\ num_trials = 0
    /\ sample = None
    /\ original_value = 0
    /\ gpc = "loop"
    /\ tests = 0

\* Variant of WhileCond that also lets the loop run at 0.
WhileCond_OrZero == cells_to_remove >= 0

\* `while cells_to_remove > 0`
WhileCond == cells_to_remove > 0

\* Variant of TrialsCounted that leaves num_trials as it is.
TrialsCounted_Unchanged == num_trials

\* num_trials after `num_trials += 1`
TrialsCounted == num_trials + 1

\* Variant of TrialsExhausted that gives up one trial later.
TrialsExhausted_Late(t) == t > MAX_NUM_TRIALS

\* `if num_trials >= MAX_NUM_TRIALS`
TrialsExhausted(t) == t >= MAX_NUM_TRIALS

\* Variant of BoardAfterTest that leaves the cell cleared.
BoardAfterTest_KeepCleared(unique) == puzzle

\* the board after `if not has_unique_solution(board): board[row][col] =
\* original_value`
BoardAfterTest(unique) ==
    IF unique THEN puzzle
    ELSE SetCell(puzzle, sample[1], sample[2], original_value)

\* Variant of CellsToRemoveAfterTest that never undoes the removal.
CellsToRemoveAfterTest_NoUndo(unique) == cells_to_remove

\* cells_to_remove after `if not has_unique_solution(board): ...
\* cells_to_remove += 1`
CellsToRemoveAfterTest(unique) ==
    IF unique THEN cells_to_remove ELSE cells_to_remove + 1

\* Variant of DeepCopied: board is the argument itself.
DeepCopied_Aliased == FALSE

\* `board = copy.deepcopy(solved_board)`: the working board is a grid of
\* its own
DeepCopied == TRUE

\* solved_board as the caller sees it when the working board has become b
ArgumentGrid(b) == IF DeepCopied THEN solved_board ELSE b

\* one pass of the while loop up to the uniqueness test: the cell (row, col)
\* is sampled; a nonempty cell is cleared and has_unique_solution is called
GenSample(row, col) ==
    /\ gpc = "loop"
    /\ WhileCond
    /\ sample' = <<row, col>>
    /\ IF puzzle[row][col] # 0
       THEN /\ original_value' = puzzle[row][col]
            /\ puzzle' = SetCell(puzzle, row, col, 0)
            /\ cells_to_remove' = cells_to_remove - 1
            /\ gpc' = "test"
            /\ tests' = IF tests > MAX_NUM_TRIALS THEN tests ELSE tests + 1
            /\ HasUniqueEnter(puzzle')
       ELSE /\ UNCHANGED <<original_value, puzzle, cells_to_remove, gpc, tests>>
            /\ UNCHANGED searchVars
    /\ solved_board' = ArgumentGrid(puzzle')
    /\ UNCHANGED <<num_empty_cells, num_trials>>
    /\ UNCHANGED fnVars
    /\ UNCHANGED ui

\* has_unique_solution has returned: restore the cell if the answer is
\* False, count the trial, give up at MAX_NUM_TRIALS
GenTested ==
    /\ gpc = "test"
    /\ pc = "c_done"
    /\ LET unique == has_unique_solution_result
           ctr == CellsToRemoveAfterTest(unique)
       IN  /\ puzzle' = BoardAfterTest(unique)
           /\ num_trials' = TrialsCounted
           /\ cells_to_remove' = IF TrialsExhausted(TrialsCounted) THEN 0 ELSE ctr
    /\ gpc' = "loop"
    /\ pc' = "idle"
    /\ solved_board' = ArgumentGrid(puzzle')
    /\ UNCHANGED <<board, domains, stack, ret, count, board0>>
    /\ UNCHANGED <<num_empty_cells, sample, original_value, tests>>
    /\ UNCHANGED fnVars
    /\ UNCHANGED ui

\* the while condition fails: return board
GenReturn ==
    /\ gpc = "loop"
    /\ ~WhileCond
    /\ gpc' = "done"
    /\ UNCHANGED searchVars
    /\ UNCHANGED <<solved_board, num_empty_cells, puzzle, cells_to_remove,
                   num_trials, sample, original_value, tests>>
    /\ UNCHANGED fnVars
    /\ UNCHANGED ui

SearchIdle ==
    /\ board = ZeroGrid /\ domains = NoDomains /\ stack = <<>> /\ pc = "idle"
    /\ ret = FALSE /\ count = <<0>> /\ board0 = ZeroGrid

(***************************************************************************)
(* Input grids.  SolvedGrid is a grid solve_sudoku produces from a seed    *)
(* grid; Puzzle(k) is that grid with the first k cells of RemovalOrder     *)
(* cleared.                                                                *)
(***************************************************************************)
SolvedGrid ==
    Grid(<< <<2, 3, 7, 8, 9, 6, 1, 5, 4>>,
            <<8, 9, 4, 1, 5, 3, 7, 6, 2>>,
            <<6, 5, 1, 2, 4, 7, 8, 9, 3>>,
            <<7, 8, 3, 9, 1, 4, 5, 2, 6>>,
            <<1, 2, 9, 7, 6, 5, 4, 3, 8>>,
            <<5, 4, 6, 3, 8, 2, 9, 1, 7>>,
            <<9, 6, 2, 4, 7, 1, 3, 8, 5>>,
            <<4, 1, 5, 6, 3, 8, 2, 7, 9>>,
            <<3, 7, 8, 5, 2, 9, 6, 4, 1>> >>)

RemovalOrder ==
    << <<0, 3>>, <<0, 4>>, <<1, 0>>, <<1, 3>>, <<2, 0>>, <<2, 2>>,
       <<3, 3>>, <<3, 4>>, <<4, 0>>, <<4, 1>>, <<4, 4>>, <<4, 5>>,
       <<5, 0>>, <<5, 2>>, <<5, 4>>, <<5, 5>>, <<6, 1>>, <<6, 2>>,
       <<7, 7>>, <<8, 0>> >>

\* the most cells cleared in an input grid
MaxBlanks == 18

Puzzle(k) ==
    [r \in Idx |-> [c \in Idx |->
        IF \E j \in 1 .. k : j <= Len(RemovalOrder) /\ RemovalOrder[j] = <<r, c>>
        THEN 0 ELSE SolvedGrid[r][c]]]

\* Changes made to a Puzzle(k) to obtain further inputs: each is a list of
\* <<row, col, value>> writes.  The first clears four cells that can be
\* completed in two ways, the second clears four more of that kind, the
\* others put a value into a cell that the solution does not have there.
Alterations ==
    << << <<3, 5, 0>>, <<3, 6, 0>>, <<4, 5, 0>>, <<4, 6, 0>> >>,
       << <<3, 5, 0>>, <<3, 6, 0>>, <<4, 5, 0>>, <<4, 6, 0>>,
          <<1, 7, 0>>, <<1, 8, 0>>, <<3, 7, 0>>, <<3, 8, 0>> >>,
       << <<0, 3, 9>> >>,
       << <<4, 0, 6>> >>,
       << <<5, 5, 5>> >> >>

\* how many of the Alterations are used
MaxAlter == 4

Alter(b, j) ==
    [r \in Idx |-> [c \in Idx |->
        IF \E w \in 1 .. Len(Alterations[j]) :
              Alterations[j][w][1] = r /\ Alterations[j][w][2] = c
        THEN (CHOOSE w \in Elems(Alterations[j]) : w[1] = r /\ w[2] = c)[3]
        ELSE b[r][c]]]

(***************************************************************************)
(* What the claims speak about: units, duplicate-free grids, completions.  *)
(***************************************************************************)
Row(r) == {<<r, c>> : c \in Idx}
Col(c) == {<<r, c>> : r \in Idx}
BoxOf(br, bc) ==
    {<<r, c>> \in Cells : r \div BOX = br /\ c \div BOX = bc}
Units ==
    {Row(r) : r \in Idx} \cup {Col(c) : c \in Idx}
        \cup {BoxOf(br, bc) : br \in 0 .. (BOX - 1), bc \in 0 .. (BOX - 1)}

At(g, cell) == g[cell[1]][cell[2]]

\* no nonzero value twice in a row, a column or a box
DuplicateFree(g) ==
    \A u \in Units : \A x \in u : \A y \in u :
        (x # y /\ At(g, x) # 0) => At(g, x) # At(g, y)

\* every row, column and box is exactly {1..9}
FullValid(g) ==
    \A u \in Units : {At(g, x) : x \in u} = Vals

EmptyCells(g) == {x \in Cells : At(g, x) = 0}
NumEmpty(g) == Cardinality(EmptyCells(g))

\* g agrees with b wherever b is filled
Extends(g, b) == \A x \in Cells : At(b, x) # 0 => At(g, x) = At(b, x)

\* the cells sharing a unit with x
Peers(x) == {y \in Cells : y # x /\ \E u \in Units : x \in u /\ y \in u}

\* the k-th empty cell of b in row-major order
EmptySeq(b) ==
    ForRange(LAMBDA sq, k :
                 IF b[k \div N][k % N] = 0 THEN Append(sq, <<k \div N, k % N>>) ELSE sq,
             <<>>, 0, N * N - 1)

\* the valid completions of b: the grids without 0 that extend b and are
\* FullValid, built by filling the empty cells one after the other with
\* every value that none of the cell's peers holds
Completions(b) ==
    LET es == EmptySeq(b)
    IN  IF ~DuplicateFree(b) THEN {}
        ELSE ForRange(LAMBDA gs, k :
                          UNION {{SetCell(g, es[k][1], es[k][2], v) :
                                     v \in {w \in Vals :
                                              \A y \in Peers(es[k]) : At(g, y) # w}} :
                                 g \in gs},
                      {b}, 1, Len(es))

(***************************************************************************)
(* Specification of the solver: solve_sudoku on initialize_domains(board), *)
(* for the input grids and every outcome of the shuffles.                  *)
(***************************************************************************)
InputGrids ==
    LET base == {Puzzle(k) : k \in 0 .. MaxBlanks}
        alt == {Alter(g, j) : g \in base,
                              j \in 1 .. (IF MaxAlter < Len(Alterations)
                                          THEN MaxAlter ELSE Len(Alterations))}
    IN  {g \in base \cup alt : DuplicateFree(g)}

InitSolve ==
    /\ board \in InputGrids
    /\ board0 = board
    /\ domains = initialize_domains(board)
    /\ stack = <<>>
    /\ pc = "call"
    /\ ret = FALSE
    /\ count = <<0>>
    /\ GenIdle
    /\ FnIdle
    /\ UiIdle

NextSolve == SolveCall \/ SolveLoop \/ SolveReturn \/ SolveDone

SpecSolve == InitSolve /\ [][NextSolve]_vars

\* solve_sudoku has not returned to its caller yet
Solving == pc \in {"call", "loop", "return"}

\* The solver runs on: weak fairness of its steps.  The second conjunct is
\* WF_vars(NextSolve) with its enabling condition written out as Solving.
FairSolve ==
    /\ WF_vars(SolveDone)
    /\ ([]<>(~Solving) \/ []<><<NextSolve>>_vars)

SpecSolveFair == InitSolve /\ [][NextSolve]_vars /\ FairSolve

(***************************************************************************)
(* Specification of the uniqueness test: has_unique_solution(puzzle) for   *)
(* the input grids.                                                        *)
(***************************************************************************)
InitUnique ==
    /\ puzzle \in InputGrids
    /\ board = puzzle
    /\ board0 = puzzle
    /\ domains = initialize_domains(puzzle)
    /\ stack = <<>>
    /\ pc = "c_call"
    /\ ret = FALSE
    /\ count = <<0>>
    /\ solved_board = ZeroGrid /\ num_empty_cells = 0
    /\ cells_to_remove = 0 /\ num_trials = 0 /\ sample = None
    /\ original_value = 0 /\ gpc = "idle" /\ tests = 0
    /\ FnIdle
    /\ UiIdle

NextUnique == CountCall \/ CountLoop \/ CountReturn \/ CountDone

SpecUnique == InitUnique /\ [][NextUnique]_vars

(***************************************************************************)
(* Specification of the generator: generate_new_sudoku on a solved grid    *)
(* (and on the grid without any value), the cells sampled from the first   *)
(* PoolSize cells of SamplePool.                                           *)
(***************************************************************************)
SamplePool ==
    << <<3, 5>>, <<3, 6>>, <<4, 5>>, <<4, 6>>, <<0, 0>>, <<8, 8>>, <<4, 4>> >>

\* how many cells of SamplePool random.randint may hit
PoolSize == 4

\* the largest num_empty_cells
MaxRequest == 4

PoolCells ==
    {SamplePool[k] : k \in 1 .. (IF PoolSize < Len(SamplePool)
                                 THEN PoolSize ELSE Len(SamplePool))}

InitGen ==
    /\ \E sb \in {SolvedGrid, ZeroGrid} : \E n \in 0 .. MaxRequest : GenEnter(sb, n)
    /\ SearchIdle
    /\ FnIdle
    /\ UiIdle

NextGen ==
    \/ \E cell \in PoolCells : GenSample(cell[1], cell[2])
    \/ CountCall \/ CountLoop \/ CountReturn \/ CountDone
    \/ GenTested
    \/ GenReturn

SpecGen == InitGen /\ [][NextGen]_vars

\* GenSample(cell[1], cell[2]) can be taken and changes the state: the loop
\* is at its head with cells_to_remove > 0, and the cell is nonempty or is
\* not the one sampled last
CanSample(cell) ==
    /\ gpc = "loop"
    /\ WhileCond
    /\ (puzzle[cell[1]][cell[2]] # 0 \/ sample # cell)

\* a step of count_solutions
CountStep == CountCall \/ CountLoop \/ CountReturn \/ CountDone

\* a CountStep can be taken: count_solutions has not returned yet
Counting == pc \in {"c_call", "c_loop", "c_return"}

\* The generator under fair scheduling: the uniqueness test and the
\* statements after it run on, and random.randint is fair, that is, a cell
\* that can be sampled again and again is sampled again and again.  The
\* third conjunct is WF_vars(CountStep) and the last one is
\* SF_vars(GenSample(cell[1], cell[2])), with their enabling conditions
\* written out as Counting and CanSample(cell).
FairGen ==
    /\ WF_vars(GenTested)
    /\ WF_vars(GenReturn)
    /\ ([]<>(~Counting) \/ []<><<CountStep>>_vars)
    /\ \A cell \in PoolCells :
           \/ <>[](~CanSample(cell))
           \/ []<><<GenSample(cell[1], cell[2])>>_vars

SpecGenFair == InitGen /\ [][NextGen]_vars /\ FairGen

(***************************************************************************)
(* Specification of generation followed by solving: generate_new_sudoku on *)
(* SolvedGrid with the cells of RemovalOrder sampled one after the other,  *)
(* then initialize_domains and solve_sudoku on the grid it returned.       *)
(***************************************************************************)
\* the pass of the while loop in which random.randint yields the next cell
\* of RemovalOrder
PipeSample ==
    /\ tests < Len(RemovalOrder)
    /\ GenSample(RemovalOrder[tests + 1][1], RemovalOrder[tests + 1][2])

\* domains = initialize_domains(board); solve_sudoku(board, domains) on the
\* grid generate_new_sudoku has returned
PipeSolve ==
    /\ gpc = "done"
    /\ pc = "idle"
    /\ board' = puzzle
    /\ board0' = puzzle
    /\ domains' = initialize_domains(puzzle)
    /\ stack' = <<>>
    /\ pc' = "call"
    /\ UNCHANGED <<ret, count>>
    /\ UNCHANGED genVars
    /\ UNCHANGED fnVars
    /\ UNCHANGED ui

InitPipe ==
    /\ \E n \in 0 .. MaxBlanks : GenEnter(SolvedGrid, n)
    /\ SearchIdle
    /\ FnIdle
    /\ UiIdle

NextPipe ==
    \/ PipeSample
    \/ CountCall \/ CountLoop \/ CountReturn \/ CountDone
    \/ GenTested
    \/ GenReturn
    \/ PipeSolve
    \/ SolveCall \/ SolveLoop \/ SolveReturn \/ SolveDone

SpecPipe == InitPipe /\ [][NextPipe]_vars

(***************************************************************************)
(* Properties of solve_sudoku, checked in SpecSolve.                       *)
(***************************************************************************)
\* C1: when solve_sudoku has returned True on a duplicate-free grid with the
\* domains of initialize_domains, the grid has no 0, every row, column and
\* box is exactly {1..9}, and every cell filled on entry holds its entry
\* value.
C1_SolveSound ==
    (pc = "done" /\ ret = TRUE /\ DuplicateFree(board0))
        => /\ EmptyCells(board) = {}
           /\ FullValid(board)
           /\ Extends(board, board0)

\* solve_sudoku has returned True on a grid with MaxBlanks empty cells, one
\* of which had two candidates
C1_Witness ==
    /\ pc = "done" /\ ret = TRUE
    /\ DuplicateFree(board0)
    /\ NumEmpty(board0) >= MaxBlanks
    /\ NumEmpty(board) = 0

\* C2: when solve_sudoku has returned on a duplicate-free grid that has a
\* valid completion, it has returned True, whatever the shuffles produced.
C2_FalseOnlyWithoutCompletion ==
    (pc = "done" /\ DuplicateFree(board0) /\ Completions(board0) # {})
        => ret = TRUE

(***************************************************************************)
(* Properties of has_unique_solution, checked in SpecUnique.               *)
(***************************************************************************)
\* C4: when has_unique_solution has finished on a duplicate-free grid, it
\* returns True if and only if the grid has exactly one valid completion
\* (False without completion, False with two or more).
C4_UniqueIffOneCompletion ==
    (pc = "c_done" /\ DuplicateFree(board0))
        => (has_unique_solution_result <=> Cardinality(Completions(board0)) = 1)

\* has_unique_solution has answered False on a grid with two or more
\* completions
C4_Witness ==
    /\ pc = "c_done"
    /\ DuplicateFree(board0)
    /\ Cardinality(Completions(board0)) >= 2
    /\ ~has_unique_solution_result

(***************************************************************************)
(* Properties of generate_new_sudoku, checked in SpecGen.                  *)
(***************************************************************************)
\* C5: started on a fully assigned valid grid, generate_new_sudoku's board
\* has exactly one valid completion at the head of every pass of the while
\* loop and at return, whatever cells were sampled, accepted or rejected,
\* and also when the loop ends at MAX_NUM_TRIALS.
C5_GeneratorKeepsUnique ==
    (gpc \in {"loop", "done"} /\ FullValid(solved_board))
        => Cardinality(Completions(puzzle)) = 1

\* the generator has returned at MAX_NUM_TRIALS, after accepted and
\* rejected removals
C5_Witness ==
    /\ gpc = "done"
    /\ FullValid(solved_board)
    /\ num_trials = MAX_NUM_TRIALS
    /\ NumEmpty(puzzle) > 0
    /\ NumEmpty(puzzle) < num_empty_cells

\* C7: for a fully assigned solved grid and num_empty_cells >= 0, the grid
\* generate_new_sudoku returns has at most num_empty_cells empty cells.
C7_EmptyAtMostRequested ==
    (gpc = "done" /\ FullValid(solved_board) /\ num_empty_cells >= 0)
        => NumEmpty(puzzle) <= num_empty_cells

\* the generator has returned a grid with exactly the requested number of
\* empty cells, three or more
C7_Witness ==
    /\ gpc = "done"
    /\ FullValid(solved_board)
    /\ num_empty_cells >= 3
    /\ NumEmpty(puzzle) = num_empty_cells

\* C8: every uniqueness test of one generate_new_sudoku call adds one to
\* num_trials, accepted or rejected (num_trials is the number of finished
\* tests); at most MAX_NUM_TRIALS tests are made; and the loop stops as soon
\* as cells_to_remove is 0 or num_trials is MAX_NUM_TRIALS: a test is only
\* ever started with cells_to_remove > 0 and num_trials < MAX_NUM_TRIALS,
\* and at MAX_NUM_TRIALS the loop head finds cells_to_remove = 0.
C8_TrialBudget ==
    /\ tests <= MAX_NUM_TRIALS
    /\ gpc \in {"loop", "done"} => num_trials = tests
    /\ gpc = "test" => /\ num_trials = tests - 1
                       /\ num_trials < MAX_NUM_TRIALS
                       /\ cells_to_remove >= 0
    /\ (gpc = "loop" /\ num_trials >= MAX_NUM_TRIALS) => cells_to_remove = 0

\* the generator has returned after exactly MAX_NUM_TRIALS tests
C8_Witness ==
    /\ gpc = "done"
    /\ tests = MAX_NUM_TRIALS
    /\ num_trials = MAX_NUM_TRIALS

\* C10: generate_new_sudoku(solved_board, 0) samples no cell, makes no
\* uniqueness test and returns a grid equal to solved_board.
C10_ZeroRequest ==
    (num_empty_cells = 0 /\ gpc # "idle")
        => /\ sample = None
           /\ tests = 0
           /\ gpc \in {"loop", "done"}
           /\ puzzle = solved_board

\* generate_new_sudoku(SolvedGrid, 0) has returned
C10_Witness ==
    /\ gpc = "done"
    /\ num_empty_cells = 0
    /\ FullValid(solved_board)
    /\ puzzle = solved_board

(***************************************************************************)
(* Termination of generate_new_sudoku, checked in SpecGenFair.             *)
(***************************************************************************)
\* C9 as stated: for every input grid, the grid without any value included,
\* and every num_empty_cells, generate_new_sudoku eventually returns when
\* the sampling is fair.
C9_AlwaysReturns == <>(gpc = "done")

\* C9, restricted: for every input grid with at least one nonempty cell and
\* every num_empty_cells, also one that cannot be reached, a call of
\* generate_new_sudoku eventually returns when the sampling is fair.
C9_ReturnsOnNonemptyGrid ==
    (gpc = "loop" /\ NumEmpty(puzzle) < N * N) ~> (gpc = "done")

\* the generator has returned although the requested number of empty cells
\* was not reached, after samples of cells that were already empty
C9_Witness ==
    /\ gpc = "done"
    /\ NumEmpty(solved_board) < N * N
    /\ NumEmpty(puzzle) < num_empty_cells
    /\ puzzle[sample[1]][sample[2]] # 0

(***************************************************************************)
(* Generation followed by solving, checked in SpecPipe.                    *)
(***************************************************************************)
\* C6: when solve_sudoku has returned on initialize_domains of a grid that
\* generate_new_sudoku returned for a fully assigned valid grid, it has
\* returned True and the grid equals solved_board cell by cell, whatever the
\* shuffles produced.
C6_SolveReproducesSolved ==
    (gpc = "done" /\ pc = "done" /\ FullValid(solved_board))
        => (ret = TRUE /\ board = solved_board)

(***************************************************************************)
(* Properties of count_solutions, checked in SpecUnique.                   *)
(***************************************************************************)
\* C11: once count_solutions has counted 2 solutions, no frame assigns a
\* value to a cell, calls update_domains or starts a recursive call any
\* more: a call is never being entered with the counter at 2.  (The only
\* step that leads to pc = "c_call" assigns a cell, calls update_domains and
\* makes the recursive call.)
C11_AbortAtTwo == (pc = "c_call") => count[1] < 2

\* C12: in every state of count_solutions started with the counter at 0,
\* the counter is 0, 1 or 2 (it goes up by one at a time, so it is never
\* incremented at 2), whatever the number of completions of the board.
C12_CountCappedAtTwo == Len(count) = 1 /\ count[1] \in {0, 1, 2}

\* count_solutions has returned with the counter at 2 on a board with more
\* than two completions
C12_Witness ==
    /\ pc = "c_done"
    /\ count[1] = 2
    /\ Cardinality(Completions(board0)) > 2

(***************************************************************************)
(* Isolation of has_unique_solution, checked in SpecGen, where the caller  *)
(* is generate_new_sudoku and the caller's grid is its board.              *)
(***************************************************************************)
\* C13: during and after has_unique_solution(grid), every cell of the
\* caller's grid holds the value it had when the call was made; the
\* assignments and resets of count_solutions happen on its own copy.
C13_CallerGridUntouched ==
    (gpc = "test") => puzzle = board0

\* count_solutions is in its loop with a cell of its copy assigned, and has
\* counted a solution before
C13_Witness ==
    /\ gpc = "test"
    /\ pc = "c_loop"
    /\ count[1] >= 1
    /\ NumEmpty(board) < NumEmpty(puzzle)
    /\ puzzle = board0

(***************************************************************************)
(* The functions that take no part in a search are examined one call at a  *)
(* time: args holds the arguments of the call, result its return value.    *)
(* The other variables rest.                                               *)
(***************************************************************************)
restVars == <<searchVars, solved_board, num_empty_cells, puzzle, cells_to_remove,
              num_trials, sample, original_value, gpc, tests, ui>>

\* a grid whose only value is a 5 in the middle cell
OneValueGrid == SetCell(ZeroGrid, 4, 4, 5)

\* the grids is_valid is called with
ValidGrids == {Puzzle(k) : k \in 0 .. MaxBlanks} \cup {OneValueGrid}

InitValid ==
    /\ \E g \in ValidGrids : \E x \in Cells : \E num \in Vals :
          args = [board |-> g, row |-> x[1], col |-> x[2], num |-> num]
    /\ result = <<>>
    /\ SearchIdle
    /\ GenIdle
    /\ UiIdle

\* one call of is_valid(board, row, col, num)
CallIsValid ==
    /\ result = <<>>
    /\ result' = <<is_valid(args.board, args.row, args.col, args.num)>>
    /\ UNCHANGED args
    /\ UNCHANGED restVars

NextValid == CallIsValid

SpecValid == InitValid /\ [][NextValid]_vars

(***************************************************************************)
(* C14  is_valid(grid, row, col, num) returns true exactly when num is in  *)
(* no cell of the row, the column and the 3x3 box of (row, col), the cell  *)
(* (row, col) itself included: on a cell that holds num it returns false.   *)
(* For a cell that does not hold num this is "num is in no other cell of   *)
(* the row, the column or the box".                                        *)
(***************************************************************************)
C14_ValidIffAbsentFromUnits ==
    result # <<>> =>
        (result[1] <=> \A y \in Peers(<<args.row, args.col>>) \cup {<<args.row, args.col>>} :
                          At(args.board, y) # args.num)

\* is_valid has answered for a cell that holds num while no other cell of
\* its row, column or box does
C14_Witness ==
    /\ result = <<FALSE>>
    /\ args.board[args.row][args.col] = args.num
    /\ \A y \in Peers(<<args.row, args.col>>) : At(args.board, y) # args.num

\* C14 as stated: is_valid returns true exactly when num is in no OTHER
\* cell of the row, the column or the box, whatever the cell itself holds
C14_ValidIffAbsentElsewhere ==
    result # <<>> =>
        (result[1] <=> \A y \in Peers(<<args.row, args.col>>) :
                          At(args.board, y) # args.num)

(***************************************************************************)
(* update_domains followed by restore_domains on the record it returned.   *)
(* Both work in place on the table they are handed: args.domains is that   *)
(* table, args.before the table as it was at the call of update_domains.   *)
(***************************************************************************)
\* the table of the empty grid after an assignment at (4, 4) was undone:
\* the lists of the cells the assignment reached have changed their order
UndoneTable ==
    LET d == initialize_domains(ZeroGrid)
        u == update_domains(d, 4, 4, 5)
    IN  restore_domains(u.domains, u.removed)

DomainTables ==
    {initialize_domains(g) : g \in {ZeroGrid, OneValueGrid, Puzzle(MaxBlanks)}}
        \cup {UndoneTable}

InitUndo ==
    /\ \E d \in DomainTables : \E x \in Cells : \E num \in Vals :
          args = [domains |-> d, before |-> d, row |-> x[1], col |-> x[2],
                  num |-> num, at |-> "update"]
    /\ result = <<>>
    /\ SearchIdle
    /\ GenIdle
    /\ UiIdle

\* removed_values = update_domains(domains, row, col, num)
CallUpdate ==
    /\ args.at = "update"
    /\ LET u == update_domains(args.domains, args.row, args.col, args.num)
       IN  /\ args' = [args EXCEPT !.domains = u.domains, !.at = "restore"]
           /\ result' = <<u.removed>>
    /\ UNCHANGED restVars

\* restore_domains(domains, removed_values)
CallRestore ==
    /\ args.at = "restore"
    /\ args' = [args EXCEPT !.domains = restore_domains(args.domains, result[1]),
                            !.at = "done"]
    /\ UNCHANGED result
    /\ UNCHANGED restVars

NextUndo == CallUpdate \/ CallRestore

SpecUndo == InitUndo /\ [][NextUndo]_vars

(***************************************************************************)
(* C15  After update_domains and restore_domains on its record, every      *)
(* cell's domain holds the same set of values as before the update, and   *)
(* as many entries: no value is lost, added or duplicated.                 *)
(***************************************************************************)
C15_UndoRestoresSets ==
    (args.at = "done") =>
        \A x \in Cells :
            /\ Elems(args.domains[x[1]][x[2]]) = Elems(args.before[x[1]][x[2]])
            /\ Len(args.domains[x[1]][x[2]]) = Len(args.before[x[1]][x[2]])

\* an update that removed num from the cell and from each of its peers
\* has been undone, and the table is not the same list for list: the
\* restored value sits at the end
C15_Witness ==
    /\ args.at = "done"
    /\ Len(result[1]) = Cardinality(Peers(<<args.row, args.col>>)) + 1
    /\ args.domains # args.before

(***************************************************************************)
(* initialize_domains on its own, on the duplicate-free grids.             *)
(***************************************************************************)
\* the first j rows of SolvedGrid over empty rows
TopRows(j) == [r \in Idx |-> IF r < j THEN SolvedGrid[r] ELSE ZeroGrid[r]]

InitGrids == InputGrids \cup {TopRows(j) : j \in 0 .. (N - 1)} \cup {OneValueGrid}

InitDomains ==
    /\ \E g \in InitGrids : args = [board |-> g]
    /\ result = <<>>
    /\ SearchIdle
    /\ GenIdle
    /\ UiIdle

\* domains = initialize_domains(board)
CallInitializeDomains ==
    /\ result = <<>>
    /\ result' = <<initialize_domains(args.board)>>
    /\ UNCHANGED args
    /\ UNCHANGED restVars

NextDomains == CallInitializeDomains

SpecDomains == InitDomains /\ [][NextDomains]_vars

(***************************************************************************)
(* C16  In the table initialize_domains returns for a duplicate-free grid, *)
(* a filled cell has the empty domain and an empty cell has exactly the    *)
(* values 1..9 that no filled cell of its row, column or box holds, each   *)
(* once.  The right-hand side names no processing order.                   *)
(***************************************************************************)
C16_InitialDomains ==
    result # <<>> =>
        \A x \in Cells :
            LET dom == result[1][x[1]][x[2]]
            IN  IF At(args.board, x) # 0
                THEN dom = <<>>
                ELSE /\ Elems(dom) = Vals \ {At(args.board, y) : y \in Peers(x)}
                     /\ Len(dom) = Cardinality(Elems(dom))

\* the table of a grid with MaxBlanks empty cells, one of which is left
\* with two candidates or more
C16_Witness ==
    /\ result # <<>>
    /\ DuplicateFree(args.board)
    /\ NumEmpty(args.board) = MaxBlanks
    /\ \E x \in EmptyCells(args.board) : Len(result[1][x[1]][x[2]]) >= 2

(***************************************************************************)
(* select_unassigned_cell on its own.  It is called with a grid and the    *)
(* table of that grid, and, inside a search, with a table that has gone    *)
(* through updates the grid does not show; the second kind is drawn as any *)
(* grid with any of DomainTables.                                          *)
(***************************************************************************)
SelectInputs ==
    {<<g, initialize_domains(g)>> : g \in InitGrids}
        \cup (InitGrids \X DomainTables)

InitSelect ==
    /\ \E p \in SelectInputs : args = [board |-> p[1], domains |-> p[2]]
    /\ result = <<>>
    /\ SearchIdle
    /\ GenIdle
    /\ UiIdle

\* cell = select_unassigned_cell(board, domains)
CallSelect ==
    /\ result = <<>>
    /\ result' = <<select_unassigned_cell(args.board, args.domains)>>
    /\ UNCHANGED args
    /\ UNCHANGED restVars

NextSelect == CallSelect

SpecSelect == InitSelect /\ [][NextSelect]_vars

\* the position of a cell in the row-major scan
ScanPos(x) == N * x[1] + x[2]

(***************************************************************************)
(* C17  select_unassigned_cell returns None exactly when the grid has no   *)
(* cell equal to 0; otherwise it returns an empty cell whose domain is no  *)
(* larger than that of any empty cell, and the first such cell in          *)
(* row-major order.                                                        *)
(***************************************************************************)
C17_SelectsFirstSmallest ==
    result # <<>> =>
        LET sel == result[1]
            size(x) == Len(args.domains[x[1]][x[2]])
        IN  IF EmptyCells(args.board) = {}
            THEN sel = None
            ELSE /\ sel \in EmptyCells(args.board)
                 /\ \A y \in EmptyCells(args.board) :
                        \/ size(sel) < size(y)
                        \/ size(sel) = size(y) /\ ScanPos(sel) <= ScanPos(y)

\* the selected cell is not the first empty cell of the scan, and another
\* empty cell has a domain of the same size
C17_Witness ==
    /\ result # <<>>
    /\ result[1] # None
    /\ \E z \in EmptyCells(args.board) : ScanPos(z) < ScanPos(result[1])
    /\ \E y \in EmptyCells(args.board) :
          /\ y # result[1]
          /\ Len(args.domains[y[1]][y[2]]) = Len(args.domains[result[1][1]][result[1][2]])

(***************************************************************************)
(* check_solution.  The scan state is [ret_val, broke]: broke is set by    *)
(* the `break` of the inner loop and, ret_val being False then, the outer  *)
(* loop breaks as well, so no cell after the first mismatch is compared.   *)
(***************************************************************************)
\* check_solution with ret_val set to True at the start of every row and
\* without the `break` of the outer loop
check_solution_PerRow(a, b) ==
    ForRange(LAMBDA st, k :
                 LET row == k \div N
                     col == k % N
                     now == IF col = 0 THEN [ret_val |-> TRUE, broke |-> FALSE] ELSE st
                 IN  IF now.broke THEN now
                     ELSE IF a[row][col] # b[row][col]
                          THEN [ret_val |-> FALSE, broke |-> TRUE]
                          ELSE now,
             [ret_val |-> TRUE, broke |-> FALSE], 0, N * N - 1).ret_val

\* check_solution(board, solved_board)
check_solution(a, b) ==
    ForRange(LAMBDA st, k :
                 LET row == k \div N
                     col == k % N
                 IN  IF st.broke THEN st
                     ELSE IF a[row][col] # b[row][col]
                          THEN [ret_val |-> FALSE, broke |-> TRUE]
                          ELSE st,
             [ret_val |-> TRUE, broke |-> FALSE], 0, N * N - 1).ret_val

\* SolvedGrid with the value of one cell replaced by its successor
OneOff(x) == SetCell(SolvedGrid, x[1], x[2], (At(SolvedGrid, x) % N) + 1)

\* what the player's grid can be: the solved grid, a grid one entry away
\* from it, a puzzle with blanks
PlayerGrids ==
    {SolvedGrid} \cup {OneOff(x) : x \in Cells} \cup {Puzzle(k) : k \in 1 .. MaxBlanks}

InitCheck ==
    /\ \E a \in PlayerGrids : \E b \in {SolvedGrid, OneOff(<<N - 1, N - 1>>)} :
          args = [board |-> a, solved_board |-> b]
    /\ result = <<>>
    /\ SearchIdle
    /\ GenIdle
    /\ UiIdle

\* check_solution(self.curr_board, self.solved_board)
CallCheckSolution ==
    /\ result = <<>>
    /\ result' = <<check_solution(args.board, args.solved_board)>>
    /\ UNCHANGED args
    /\ UNCHANGED restVars

NextCheck == CallCheckSolution

SpecCheck == InitCheck /\ [][NextCheck]_vars

(***************************************************************************)
(* C18  check_solution(a, b) returns true exactly when a and b agree in    *)
(* all 81 cells; leaving the loops at the first mismatch changes nothing   *)
(* about that.                                                             *)
(***************************************************************************)
C18_TrueIffAllCellsEqual ==
    result # <<>> =>
        (result[1] <=> \A x \in Cells : At(args.board, x) = At(args.solved_board, x))

\* the answer is False for two grids that differ in a single cell of the
\* first row, so that the scan stopped with eight rows unread
C18_Witness ==
    /\ result = <<FALSE>>
    /\ Cardinality({x \in Cells : At(args.board, x) # At(args.solved_board, x)}) = 1
    /\ \E x \in Row(0) : At(args.board, x) # At(args.solved_board, x)

(***************************************************************************)
(* generate_random_base_grid.  random.shuffle(base) leaves any of the 9!   *)
(* orders of base; the orders drawn here are those that move only the      *)
(* first MaxShuffled entries.                                              *)
(***************************************************************************)
MaxShuffled == 5

\* the outcomes of random.shuffle(base)
ShuffledBase(base) ==
    LET k == IF MaxShuffled < Len(base) THEN MaxShuffled ELSE Len(base)
    IN  {t \o SubSeq(base, k + 1, Len(base)) : t \in Shuffles(SubSeq(base, 1, k))}

\* the grid with base in every row
generate_random_base_grid_AllRows(base) == [r \in Idx |-> [c \in Idx |-> base[c + 1]]]

\* grid = [[0] * 9 for _ in range(9)]; grid[0] = base
generate_random_base_grid(base) == [ZeroGrid EXCEPT ![0] = [c \in Idx |-> base[c + 1]]]

InitBase ==
    /\ args = [base |-> FullDomain, at |-> "shuffle"]
    /\ result = <<>>
    /\ SearchIdle
    /\ GenIdle
    /\ UiIdle

\* random.shuffle(base)
BaseShuffle ==
    /\ args.at = "shuffle"
    /\ \E t \in ShuffledBase(args.base) : args' = [base |-> t, at |-> "grid"]
    /\ UNCHANGED result
    /\ UNCHANGED restVars

\* the grid is built and returned
BaseReturn ==
    /\ args.at = "grid"
    /\ result' = <<generate_random_base_grid(args.base)>>
    /\ args' = [args EXCEPT !.at = "done"]
    /\ UNCHANGED restVars

NextBase == BaseShuffle \/ BaseReturn

SpecBase == InitBase /\ [][NextBase]_vars

(***************************************************************************)
(* C19  In a grid returned by generate_random_base_grid, row 0 holds every *)
(* value of 1..9 exactly once and rows 1..8 hold only 0, so the grid is    *)
(* duplicate-free.                                                         *)
(***************************************************************************)
C19_BaseGridShape ==
    result # <<>> =>
        LET g == result[1]
        IN  /\ {g[0][c] : c \in Idx} = Vals
            /\ \A r \in Idx \ {0} : \A c \in Idx : g[r][c] = 0
            /\ DuplicateFree(g)

\* a grid has been returned whose first row is not in ascending order
C19_Witness ==
    /\ result # <<>>
    /\ args.at = "done"
    /\ \E c \in Idx \ {0} : result[1][0][c] < result[1][0][c - 1]

(***************************************************************************)
(* C20  In a solve_sudoku frame whose for loop has run out, so that the    *)
(* frame is about to return False, the values the loop has read are the    *)
(* values the selected cell's domain held when the loop began, each read   *)
(* exactly once: none skipped, none read twice.                            *)
(***************************************************************************)
C20_EveryCandidateOnce ==
    (pc = "loop" /\ "tried" \in DOMAIN Top
        /\ Top.i >= Len(domains[Top.row][Top.col])) =>
            /\ Elems(Top.tried) = Elems(Top.start)
            /\ Len(Top.tried) = Len(Top.start)

(***************************************************************************)
(* C21  In every state of a search, a cell whose grid value is not 0 has   *)
(* the empty domain, whether it was filled in the input or assigned by the *)
(* search.                                                                 *)
(***************************************************************************)
C21_AssignedCellsHaveNoDomain ==
    (pc \in {"call", "loop", "return", "done"}) =>
        \A x \in Cells : At(board, x) # 0 => domains[x[1]][x[2]] = <<>>

(***************************************************************************)
(* C22  Whenever solve_sudoku or count_solutions is about to select a      *)
(* cell, the domain of every empty cell holds, as a set, the values 1..9   *)
(* that no assigned cell of its row, column or box holds.                  *)
(***************************************************************************)
\* the search is at a call of select_unassigned_cell
AtSelection == pc = "call" \/ (pc = "c_call" /\ ~CountCapReached)

C22_ForwardChecked ==
    AtSelection =>
        \A x \in EmptyCells(board) :
            Elems(domains[x[1]][x[2]]) = Vals \ {At(board, y) : y \in Peers(x)}

\* solve_sudoku selects below a frame whose first candidate has failed and
\* been undone, with a cell left to select
C22_Witness ==
    /\ pc = "call"
    /\ stack # <<>>
    /\ Len(Top.tried) >= 2
    /\ EmptyCells(board) # {}

(***************************************************************************)
(* C23  When a call of solve_sudoku, outermost or recursive, returns       *)
(* False, every cell of the grid holds the value it held when the call was *)
(* entered and every domain holds the values it held then, each as often.  *)
(***************************************************************************)
\* the for loop of the top frame has run out: the frame returns False next
ReturnsFalse ==
    /\ pc = "loop"
    /\ "tried" \in DOMAIN Top
    /\ Top.i >= Len(domains[Top.row][Top.col])

C23_FailureLeavesStateAsEntered ==
    ReturnsFalse =>
        /\ board = Top.board_in
        /\ \A x \in Cells :
              /\ Elems(domains[x[1]][x[2]]) = Elems(Top.domains_in[x[1]][x[2]])
              /\ Len(domains[x[1]][x[2]]) = Len(Top.domains_in[x[1]][x[2]])

\* a recursive call returns False after one of its candidates was assigned,
\* searched below and undone
C23_Witness ==
    /\ ReturnsFalse
    /\ Len(stack) >= 2
    /\ Top.removed # <<>>
    /\ domains # Top.domains_in

(***************************************************************************)
(* C24  After update_domains and restore_domains on its record, every      *)
(* cell's domain list is the list it was before the update: the same       *)
(* values at the same positions.                                           *)
(***************************************************************************)
C24_UndoRestoresLists ==
    (args.at = "done") => args.domains = args.before

(***************************************************************************)
(* C25  update_domains(domains, row, col, num) leaves the domains outside  *)
(* the row, the column and the box of (row, col) as they were, removes no  *)
(* value but num, and returns a record with exactly one key for every cell *)
(* of that row, column or box whose domain held num, each with the single  *)
(* removal [num].                                                          *)
(***************************************************************************)
C25_UpdateFrame ==
    (args.at = "restore") =>
        LET c == <<args.row, args.col>>
            group == Peers(c) \cup {c}
            rec == result[1]
            held == {x \in group : Contains(args.before[x[1]][x[2]], args.num)}
        IN  /\ \A x \in Cells \ group :
                  args.domains[x[1]][x[2]] = args.before[x[1]][x[2]]
            /\ \A x \in Cells :
                  /\ Elems(args.before[x[1]][x[2]]) \ Elems(args.domains[x[1]][x[2]])
                        \subseteq {args.num}
                  /\ Elems(args.domains[x[1]][x[2]]) \subseteq Elems(args.before[x[1]][x[2]])
            /\ \A x \in held : ~Contains(args.domains[x[1]][x[2]], args.num)
            /\ {rec[k].cell : k \in 1 .. Len(rec)} = held
            /\ Len(rec) = Cardinality(held)
            /\ \A k \in 1 .. Len(rec) : rec[k].values = <<args.num>>

\* update_domains has returned from a table in which num was a candidate
\* of the cell, of the cells its box shares with its row and column, and
\* of a cell outside its three groups
C25_Witness ==
    /\ args.at = "restore"
    /\ Len(result[1]) = Cardinality(Peers(<<args.row, args.col>>)) + 1
    /\ \E x \in Cells \ (Peers(<<args.row, args.col>>) \cup {<<args.row, args.col>>}) :
          Contains(args.domains[x[1]][x[2]], args.num)

(***************************************************************************)
(* C26  Removal records are used last in, first out.  restore_domains is   *)
(* applied only to the record of the innermost frame, only while that      *)
(* record has not been applied before, and only when the table holds what  *)
(* the record's update_domains left; the records of the frames above it    *)
(* stay unapplied meanwhile; and when a frame's loop goes on after a       *)
(* failed candidate, that candidate's record has been applied.             *)
(***************************************************************************)
\* restore_domains is about to be applied to the record of the top frame
AtUndo ==
    /\ stack # <<>>
    /\ \/ pc = "return" /\ ~ret
       \/ pc = "c_return" /\ ~(Len(count) > 1)

SameCandidates(d, e) ==
    \A x \in Cells : /\ Elems(d[x[1]][x[2]]) = Elems(e[x[1]][x[2]])
                     /\ Len(d[x[1]][x[2]]) = Len(e[x[1]][x[2]])

C26_RecordsLastInFirstOut ==
    /\ AtUndo => (Top.record = "live" /\ SameCandidates(domains, Top.after))
    /\ \A k \in 1 .. (Len(stack) - 1) : stack[k].record = "live"
    /\ (pc \in {"loop", "c_loop"}) => Top.record \in {"none", "undone"}

\* count_solutions is about to undo the assignment of a frame that is not
\* the outermost, after the call below it had frames of its own
C26_Witness ==
    /\ AtUndo
    /\ pc = "c_return"
    /\ Len(stack) >= 2
    /\ domains # Top.after

(***************************************************************************)
(* C27  solve_sudoku always returns.  On the way, every recursive call is  *)
(* entered with fewer empty cells than its caller was, so there are never  *)
(* more frames than the grid had empty cells at the outermost call, and    *)
(* the for loop of a frame reads no more values than the cell's domain had *)
(* when the loop began.                                                    *)
(***************************************************************************)
C27_Bounded ==
    Solving =>
        /\ Len(stack) <= NumEmpty(board0)
        /\ \A k \in 1 .. Len(stack) :
              /\ Len(stack[k].tried) <= Len(stack[k].start)
              /\ k > 1 => NumEmpty(stack[k].board_in) < NumEmpty(stack[k - 1].board_in)

C27_SolveTerminates == []C27_Bounded /\ <>(pc = "done")

\* solve_sudoku has returned False, all its loops run out, on a grid that
\* had three empty cells or more
C27_Witness ==
    /\ pc = "done"
    /\ ~ret
    /\ NumEmpty(board0) >= 3

(***************************************************************************)
(* The game window (SudokuGame) and its new-game dialog, one action per    *)
(* event handler.  ui.enabled is centralwidget's enabled flag, ui.timer    *)
(* whether the QTimer runs, ui.dialog whether the new-game dialog is       *)
(* shown.  A handler runs to its end before the next event is handled.     *)
(* The boards a new game starts from are SolvedGrid and its puzzles with   *)
(* up to MaxGameBlanks blanks; the player types into the cells GameCells.  *)
(***************************************************************************)
nonUiVars == <<searchVars, genVars, fnVars>>

\* the 3 of `if self.mistake_count >= 3`
MistakeLimit == 3

MaxGameBlanks == 3

\* the cells the player types into: the blanks and one given cell
GameCells == {RemovalOrder[j] : j \in 1 .. MaxGameBlanks} \cup {<<N - 1, N - 1>>}

\* what the player types into a cell: nothing (0), the solution's value,
\* or one of the two values after it
TypedValues(cell) ==
    {0, At(SolvedGrid, cell), (At(SolvedGrid, cell) % N) + 1,
     ((At(SolvedGrid, cell) + 1) % N) + 1}

\* utility.has_zero(board)
has_zero(b) == \E x \in Cells : At(b, x) = 0

\* utility.find_populated_numbers(board): the numbers that are on the
\* board exactly 9 times
find_populated_numbers(b) ==
    {num \in Vals : Cardinality({x \in Cells : At(b, x) = num}) = N}

\* SudokuGame.is_valid_value(value, row, col)
is_valid_value(value, row, col) ==
    IF value \in Vals
    THEN IF value \in ui.populated_numbers
         THEN -1
         ELSE IF ui.solved_board[row][col] = value THEN 1 ELSE 0
    ELSE -1

\* a limit test that lets the third mistake pass
MistakeLimitReached_Above(m) == m > MistakeLimit

\* `if self.mistake_count >= 3` of increase_mistake_count
MistakeLimitReached(m) == m >= MistakeLimit

\* SudokuGame.__init__: the dialog is shown, the counter is 0
InitGame ==
    /\ ui = [mistake_count |-> 0, enabled |-> FALSE, timer |-> FALSE,
             dialog |-> TRUE, curr_board |-> ZeroGrid, solved_board |-> ZeroGrid,
             populated_numbers |-> {}]
    /\ SearchIdle
    /\ GenIdle
    /\ FnIdle

\* pushButton.pressed: show_new_game_dialog()
PressNewGame ==
    /\ ui' = [ui EXCEPT !.timer = FALSE, !.enabled = FALSE, !.dialog = TRUE]
    /\ UNCHANGED nonUiVars

\* a difficulty button of the dialog: start_new_game, that is,
\* process_new_game (timer reset and started, counter reset, boards
\* filled), enable_grid(), and the dialog closed.  The textChanged
\* signals of the filling leave populated_numbers computed from the puzzle.
StartNewGame(k) ==
    /\ ui.dialog
    /\ ui' = [mistake_count |-> 0, enabled |-> TRUE, timer |-> TRUE,
              dialog |-> FALSE, curr_board |-> Puzzle(k),
              solved_board |-> SolvedGrid,
              populated_numbers |-> find_populated_numbers(Puzzle(k))]
    /\ UNCHANGED nonUiVars

\* textChanged of a cell the player has typed into: process_cell_input
CellInput(cell, value) ==
    /\ ui.enabled
    /\ At(ui.curr_board, cell) # value
    /\ LET valid == is_valid_value(value, cell[1], cell[2])
           b == SetCell(ui.curr_board, cell[1], cell[2],
                        IF valid = -1 THEN 0 ELSE value)
           m == IF valid = 0 THEN ui.mistake_count + 1 ELSE ui.mistake_count
           lost == valid = 0 /\ MistakeLimitReached(m)
           solved == ~has_zero(b) /\ check_solution(b, ui.solved_board)
       IN  ui' = [ui EXCEPT !.curr_board = b,
                            !.mistake_count = m,
                            !.populated_numbers = find_populated_numbers(b),
                            !.timer = IF lost \/ solved THEN FALSE ELSE @,
                            !.enabled = IF lost \/ solved THEN FALSE ELSE @,
                            !.dialog = IF lost \/ solved THEN TRUE ELSE @]
    /\ UNCHANGED nonUiVars

NextGame ==
    \/ PressNewGame
    \/ \E k \in 1 .. MaxGameBlanks : StartNewGame(k)
    \/ \E cell \in GameCells : \E value \in TypedValues(cell) : CellInput(cell, value)

SpecGame == InitGame /\ [][NextGame]_vars

(***************************************************************************)
(* C28  While the grid is enabled the mistake counter is below 3; when the *)
(* counter is at 3 the timer is stopped, the grid disabled and the         *)
(* new-game dialog shown; and a step that enables the grid leaves the      *)
(* counter at 0.                                                           *)
(***************************************************************************)
C28_LimitState ==
    /\ ui.enabled => ui.mistake_count < MistakeLimit
    /\ ui.mistake_count >= MistakeLimit =>
          (~ui.enabled /\ ~ui.timer /\ ui.dialog)

C28_MistakeLimit ==
    /\ []C28_LimitState
    /\ [][(~ui.enabled /\ ui'.enabled) => ui'.mistake_count = 0]_vars

\* the third mistake has been made
C28_Witness ==
    /\ ui.mistake_count = MistakeLimit
    /\ ~ui.enabled
    /\ ui.dialog

(***************************************************************************)
(* C29  Every value that the for loop of solve_sudoku or count_solutions   *)
(* reads for the selected cell is accepted by is_valid on the grid as it   *)
(* is then: the validity test never makes the search pass over a           *)
(* candidate.                                                              *)
(***************************************************************************)
\* the value the for loop of the top frame reads next (0 when it has run out)
NextCandidate ==
    IF pc = "loop" /\ Top.i < Len(domains[Top.row][Top.col])
    THEN domains[Top.row][Top.col][Top.i + 1]
    ELSE IF pc = "c_loop" /\ Top.i < Len(Top.original_domain)
         THEN Top.original_domain[Top.i + 1]
         ELSE 0

C29_IsValidNeverRejects ==
    NextCandidate # 0 => is_valid(board, Top.row, Top.col, NextCandidate)

\* the loop of a solve_sudoku call reads a value after an earlier one of
\* the same frame has failed and been undone
C29_Witness ==
    /\ pc = "loop"
    /\ NextCandidate # 0
    /\ Top.record = "undone"

(***************************************************************************)
(* C30  In every state of generate_new_sudoku each cell of the working     *)
(* board is 0 or holds the value of the same cell of solved_board, also    *)
(* after a removal was rejected and the value put back; and no step        *)
(* changes solved_board.                                                   *)
(***************************************************************************)
C30_BoardWithinSolved ==
    (gpc # "idle") =>
        \A x \in Cells : At(puzzle, x) = 0 \/ At(puzzle, x) = At(solved_board, x)

C30_OnlyClears ==
    /\ []C30_BoardWithinSolved
    /\ [][solved_board' = solved_board]_vars

\* a removal has just been rejected and the cell holds its value again,
\* while another cell stays cleared
C30_Witness ==
    /\ gpc = "loop"
    /\ num_trials >= 2
    /\ sample # None
    /\ At(puzzle, sample) # 0
    /\ At(puzzle, sample) = original_value
    /\ NumEmpty(puzzle) >= 1
    /\ solved_board = SolvedGrid

(***************************************************************************)
(* Removal accounting of generate_new_sudoku.                              *)
(***************************************************************************)
\* a pass of the while loop of generate_new_sudoku is about to start: the
\* loop is at its head and `cells_to_remove > 0` holds
AtIterationStart == gpc = "loop" /\ WhileCond

\* C31: for a fully assigned solved grid, whenever a pass of the while loop
\* of generate_new_sudoku starts, cells_to_remove plus the number of empty
\* cells of the working board equals num_empty_cells; and a call that
\* returns after fewer than MAX_NUM_TRIALS uniqueness tests returns a board
\* with exactly num_empty_cells empty cells.
C31_RemovalAccounting ==
    FullValid(solved_board) =>
        /\ AtIterationStart =>
               cells_to_remove + NumEmpty(puzzle) = num_empty_cells
        /\ (gpc = "done" /\ tests < MAX_NUM_TRIALS) =>
               NumEmpty(puzzle) = num_empty_cells

\* a pass of the loop starts right after a rejected removal (the cell
\* sampled last was tested and holds its value again), with cells already
\* removed and cells still to remove
C31_Witness ==
    /\ AtIterationStart
    /\ FullValid(solved_board)
    /\ sample # None
    /\ tests > 0
    /\ puzzle[sample[1]][sample[2]] # 0
    /\ NumEmpty(puzzle) >= 1
    /\ cells_to_remove >= 1

\* the call has returned before the trial budget was used up, after three
\* or more uniqueness tests, all of them passed
C31_ReturnedEarly ==
    /\ gpc = "done"
    /\ FullValid(solved_board)
    /\ tests < MAX_NUM_TRIALS
    /\ num_empty_cells >= 3
    /\ tests = num_empty_cells

====
